---- MODULE Spec2Model ----
(***************************************************************************)
(* Model of the Moblin relay (src/relay/main.go): the hub event loop       *)
(* Relay.Run, the registry lock, the per-connection read and write pumps   *)
(* and the HTTP handlers that call Relay.Broadcast.                        *)
(***************************************************************************)
EXTENDS Integers, Sequences, FiniteSets, TLC

\* ------------------------------------------------------------------ bounds
\* Capacity of a client's Send channel (256 in the source, scaled down).
SendCap == 2
\* Capacity of the relay's broadcast channel (256 in the source, scaled down).
BroadcastCap == 1
\* Inputs the relay receives in total: frames read by the read pumps of all
\* connections, and calls of Relay.Broadcast made by HTTP handlers.
MaxInputs == 2
\* Matches the scout store archives.
MaxArchives == 1
\* Times the process is killed and started again.
MaxCrashes == 1
\* The clock runs from 0 to MaxTime, in ticks.
MaxTime == 3
\* Age, in ticks, beyond which RateLimiter.cleanup drops a timestamp (5 minutes
\* in the source, scaled down).
SweepAge == 2
\* The login limit (5 in the source, scaled down) and its window in ticks (one
\* minute in the source: shorter than the sweeper's age).
LoginLimit == 2
LoginWindow == 2
\* Lifetime of a session in ticks (30 days in the source, scaled down).
SessionTTL == 2
\* Logout requests made with one session ID.
MaxLogouts == 2

\* ------------------------------------------------------------- connections
\* The connections that may be opened; each is one call of ServeWS and so one
\* Client object with its own ID.
Moblins == {"m1", "m2"}
Browsers == {"b1", "b2"}
Peers == Moblins \cup Browsers
NoPeer == "none"

ClientTypeMoblin == "moblin"
ClientTypeBrowser == "browser"

\* The client type ServeWS derives from the query parameter.
Type(p) == IF p \in Moblins THEN ClientTypeMoblin ELSE ClientTypeBrowser

\* Passwords: the relay's configured one ("" disables authentication) and
\* the ones an auth frame may carry.
RelayPasswords == {"", "pw"}
FramePasswords == {"pw", "bad"}

\* A frame on a Send queue or on the broadcast channel.
Frame(t, p, k) == [type |-> t, from |-> p, n |-> k]
Synth(t) == Frame(t, NoPeer, 0)

\* What a read pump may read from its connection: a JSON message (an auth
\* frame or any other frame), or bytes that do not decode.
Incoming ==
    [type : {"auth"}, password : FramePasswords]
        \cup {[type |-> "cmd", password |-> "bad"], [type |-> "badjson", password |-> "bad"]}

VARIABLES
    pool,        \* the connections this run opens
    password,    \* Relay.password
    clients,     \* Relay.clients (keyed by the unique client ID)
    moblin,      \* Relay.moblin, the controller slot
    browsers,    \* Relay.browsers
    broadcast,   \* Relay.broadcast, a buffered channel
    wlock,       \* Relay.mu held for writing
    hub,         \* position of Relay.Run: [pc, client]
    pc,          \* position of each connection's ServeWS / readPump
    Authorized,  \* Client.Authorized
    Send,        \* Client.Send, contents of the buffered channel
    closes,      \* how many times close(Client.Send) ran
    cur,         \* readPump's local: the raw frame being routed
    target,      \* routeToMoblin's local: the slot value it read
    ninput,      \* frames read and Broadcast calls made so far
    crashed,     \* the process died of a panic
    wpump,       \* position of each connection's writePump
    conn,        \* Client.Conn: open, or closed by one of the pumps
    routed,      \* history: the routeToBrowsers calls, in order
    delivered,   \* history: the routed frames each write pump wrote out
    authSent,    \* history: the client has sent an auth frame with the relay's password
    store,       \* ScoutStore.state and MatchdayStore.state
    archive,     \* the documents ArchiveMatch wrote to the archive directory
    req,         \* the POST requests to /api/scout and /api/matchday: position and locals
    handed,      \* the frames the handlers passed to Broadcaster.Broadcast
    lockOrder,   \* history: the order in which UpdateState calls took each store's lock
    base,        \* history: the version each store held after construction
    disk,        \* the files scout-current.json and matchday-current.json
    lastArchive, \* the latest response of HandleArchive
    ncrash,      \* history: the times the process was killed and started again
    now,         \* time.Now()
    quota,       \* the limit and window the callers of Allow use for a client's key
    requests,    \* RateLimiter.requests
    allowed,     \* history: the calls of Allow that returned true, per key: the time,
                 \* and whether the caller went on to compare a PIN
    sessions,    \* SessionStore.sessions
    minted,      \* history: the session IDs Create has drawn
    issuedBy,    \* history: the login request each session was created for
    nlogout,     \* history: the logout requests made with each session ID
    probe,       \* HandleSession between its Get and its Touch: the session ID
    lastLogin,   \* the status of the latest login response
    lastLogout,  \* the body of the latest logout response
    gate,        \* AuthMiddleware.Protect: the request it is serving or served last
    static,      \* the static file handler: the request it served last
    seen         \* history: the headers of the request authMiddleware served last

config == <<pool, password>>
registry == <<clients, moblin, browsers>>
locals == <<cur, target>>
pumps == <<wpump, conn>>

history == <<routed, delivered, authSent>>

relay == <<config, registry, broadcast, wlock, hub, pc, Authorized, Send, closes,
           locals, pumps, ninput, crashed, history>>

storeVars == <<store, archive, req, handed, lockOrder, base, disk, lastArchive, ncrash>>
authVars == <<now, quota, requests, allowed, sessions, minted, issuedBy, nlogout, probe,
              lastLogin, lastLogout, gate, static, seen>>
services == <<storeVars, authVars>>

vars == <<relay, services>>

NoFrame == Synth("none")
HubIdle == [pc |-> "idle", client |-> NoPeer]

\* ---------------------------------------------------------------- helpers
\* A variant of TrySend that makes room in a full queue by discarding its
\* oldest frame.
TrySendDropOldest(q, f) == IF Len(q) < SendCap THEN Append(q, f) ELSE Append(Tail(q), f)

\* select { case c.Send <- f: default: } on an open channel.
TrySend(q, f) == IF Len(q) < SendCap THEN Append(q, f) ELSE q

\* notifyBrowsers: try-send to every browser of the registry.
notifyBrowsers(S, bs, f) ==
    [p \in Peers |-> IF p \in bs THEN TrySend(S[p], f) ELSE S[p]]

\* A variant of routeFanOut that does not look at the Authorized flag.
routeFanOutAll(S, bs, auth, f) ==
    [p \in Peers |-> IF p \in bs THEN TrySend(S[p], f) ELSE S[p]]

\* The fan-out of routeToBrowsers: try-send to every authorized browser.
routeFanOut(S, bs, auth, f) ==
    [p \in Peers |-> IF p \in bs /\ auth[p] THEN TrySend(S[p], f) ELSE S[p]]

\* A variant of broadcastFanOut that, like routeToBrowsers, passes over the
\* browsers that are not authorized.
broadcastFanOutAuthorized(S, cs, f) ==
    [p \in Peers |-> IF p \in cs /\ (Type(p) = ClientTypeBrowser => Authorized[p])
                       THEN TrySend(S[p], f) ELSE S[p]]

\* The fan-out of the hub's broadcast case: try-send to every client.
broadcastFanOut(S, cs, f) ==
    [p \in Peers |-> IF p \in cs THEN TrySend(S[p], f) ELSE S[p]]

\* ------------------------------------------------------- versioned stores
\* The two stores; only the scout store has ArchiveMatch.
Stores == {"scout", "matchday"}

\* The date of the match the request bodies carry, and the date time.Now()
\* formats to.
MatchDay == "2024-03-15"
Today == "today"

\* A document: Version and the payload fields MatchName, MatchDate and
\* Players (for the matchday store they stand for HomeTeam, Date and the other
\* payload fields). LastUpdated is left out: no operation reads it.
Doc(v, n, d, ps) == [Version |-> v, MatchName |-> n, MatchDate |-> d, Players |-> ps]
NoDoc == Doc(0, "", "", << >>)

\* A variant of DefaultDoc that starts at version 0.
DefaultDocZero == Doc(0, "", Today, << >>)

\* The document NewScoutStore / NewMatchdayStore fall back to and ArchiveMatch
\* resets to: Version 1 and an empty payload.
DefaultDoc == Doc(1, "", Today, << >>)

\* The documents a request body may carry: one of a named match with a
\* version below every version a store holds, one without a match name with a
\* version above.
Bodies == {Doc(0, "A", MatchDay, <<"p1">>), Doc(9, "", MatchDay, <<"p2">>)}

\* What a store holds after construction: the default document, or the
\* document of an earlier run loaded from its file.
LoadedDocs == {DefaultDoc, Doc(2, "A", MatchDay, <<"p1">>)}

\* A file: the JSON of a document, no file, or a file whose bytes are not
\* the JSON of a document (WriteFile truncates, then writes).
File(d) == [kind |-> "json", doc |-> d]
NoFile == [kind |-> "none", doc |-> NoDoc]
Torn == [kind |-> "torn", doc |-> NoDoc]

\* The outcomes of ioutil.WriteFile: the file holds the new bytes; the call
\* failed before it truncated the file; it failed after.
WriteResults == {"ok", "unopened", "partial"}
WriteFile(f, d, res) == CASE res = "ok" -> File(d)
                          [] res = "unopened" -> f
                          [] res = "partial" -> Torn

\* s.save(): MarshalIndent of the state, then WriteFile to the current file.
save(f, d, res) == WriteFile(f, d, res)

\* load, and the fallback of the constructors when it fails.
load(f) == IF f.kind = "json" THEN f.doc ELSE DefaultDoc

\* The responses of HandleArchive; NoReply before the first request.
Reply(code, msg) == [status |-> code, error |-> msg]
NoReply == Reply(0, "")

\* The POST requests to the store endpoints, each served in its own goroutine.
Requests == {"r1", "r2", "r3"}
NoRequest == [pc |-> "idle", st |-> "scout", body |-> NoDoc, rest |-> "", stamped |-> 0,
              resp |-> NoDoc]

\* What may follow the first JSON value of a request body: nothing, or bytes
\* that make the body malformed (Decoder.Decode reads one value and does not
\* look at what follows it).
Garbage == "}{"
Rests == {"", Garbage}

\* NewStores(d): NewScoutStore and NewMatchdayStore with d the documents they
\* start with: a store that starts with the default document found no file
\* it could load.
NewStores(d) ==
    /\ store = d
    /\ archive = << >>
    /\ req = [r \in Requests |-> NoRequest]
    /\ handed = {}
    /\ lockOrder = [s \in Stores |-> << >>]
    /\ base = [s \in Stores |-> d[s].Version]
    /\ disk = [s \in Stores |-> IF d[s] = DefaultDoc THEN NoFile ELSE File(d[s])]
    /\ lastArchive = NoReply
    /\ ncrash = 0

\* ------------------------------------------------------------ auth service
\* The rate limiter's keys: a client's IP, as the middleware uses it, and
\* the key of its login attempts.
ClientKey == "ip"
LoginKey == "ip:login"
Keys == {ClientKey, LoginKey}

\* The limits and windows callers pass to Allow for a client's key: windows
\* shorter and longer than the age at which the sweeper drops timestamps.
Quotas == [limit : 1..2, window : {SweepAge - 1, SweepAge + 1}]

\* Session IDs (Create draws 32 random bytes: every ID is new) and the values
\* a vb_session cookie may carry: an ID Create has returned, a value that is
\* no session's ID (Forged) or, for no cookie, "".
SessionIDs == {"s1", "s2"}
Forged == "x"
Cookies == SessionIDs \cup {"", Forged}
NoSession == [ExpiresAt |-> -1, LastUsed |-> -1]

\* AuthService.PIN and the PINs a login request may carry.
PIN == "274683"
PINs == {PIN, "000000"}

\* A login request: its method, the PIN of its body and the kind of the body:
\* well-formed JSON, a JSON value followed by other bytes, or bytes whose first
\* JSON value does not decode. Decode reads the first value only.
Methods == {"POST", "GET"}
WellFormed == "json"
Trailing == "json+rest"
Undecodable == "bad"
LoginBodies == {WellFormed, Trailing, Undecodable}
Decodes(body) == body # Undecodable
Login(method, pin, body) == [method |-> method, pin |-> pin, body |-> body]
NoLogin == Login("", "", "")

\* AuthResponse{Success: ok}; NoResponse before the first logout request.
AuthResponse(ok) == [success |-> ok]
NoResponse == [success |-> FALSE]

\* The User-Agent headers a request may carry and IsBot: the header matches
\* one of botPatterns; an empty header is let through.
UserAgents == {"", "Mozilla/5.0", "curl/8.0"}
IsBot(ua) == ua \in {"curl/8.0"}

\* AuthMiddleware.Protect: where the request it serves is (passed: between Get
\* and Touch, with the cookie it carries), the status it wrote last (0: none
\* yet) and whether next was invoked for the latest request.
Gate(at, c, st, nx) == [pc |-> at, cookie |-> c, status |-> st, next |-> nx]
NoGate == Gate("idle", "", 0, FALSE)

\* Request paths, as the part a prefix test looks at and the rest.
Path(head, rest) == <<head, rest>>
Paths == {Path("/", ""), Path("/index.html", ""), Path("/scout.html", ""),
          Path("/login.html", ""), Path("/login.html", ".bak"),
          Path("/favicon.ico", ""), Path("/styles.css", ""),
          Path("/overlay/", "score.html")}
HasPrefix(path, prefix) == path[1] = prefix

\* What the static file handler did with the latest request: 302, a redirect
\* to /login.html, or 200, the request went to the file server; 0 before the
\* first request.
NoStatic == 0

\* The values of the Accept and Content-Type headers of a request.
JSON == "application/json"
MediaTypes == {"", JSON, "text/html"}
Headers(accept, ctype) == [Accept |-> accept, ContentType |-> ctype]
NoHeaders == Headers("", "")

\* NewAuthService with a sessions.json that holds the sessions ids, created at
\* time 0 by an earlier run: NewSessionStore loads them; the rate limiter is
\* empty; q is the quota the callers of Allow use for a client's key.
LoadAuthService(q, ids) ==
    /\ now = 0
    /\ quota = q
    /\ requests = [k \in Keys |-> << >>]
    /\ allowed = [k \in Keys |-> << >>]
    /\ sessions = [id \in SessionIDs |->
                        IF id \in ids THEN [ExpiresAt |-> SessionTTL, LastUsed |-> 0]
                                      ELSE NoSession]
    /\ minted = ids
    /\ issuedBy = [id \in SessionIDs |-> NoLogin]
    /\ nlogout = [id \in SessionIDs |-> 0]
    /\ probe = ""
    /\ lastLogin = 0
    /\ lastLogout = NoResponse
    /\ gate = NoGate
    /\ static = NoStatic
    /\ seen = NoHeaders

\* NewAuthService with no sessions.json: an empty session store.
NewAuthService(q) == LoadAuthService(q, {})

\* ------------------------------------------------------------------- Init
\* NewRelay, with P the connections that will be opened.
NewRelay(P) ==
    /\ pool = P
    /\ password \in RelayPasswords
    /\ clients = {}
    /\ moblin = NoPeer
    /\ browsers = {}
    /\ broadcast = << >>
    /\ wlock = FALSE
    /\ hub = HubIdle
    /\ pc = [p \in Peers |-> "new"]
    /\ Authorized = [p \in Peers |-> FALSE]
    /\ Send = [p \in Peers |-> << >>]
    /\ closes = [p \in Peers |-> 0]
    /\ cur = [p \in Peers |-> NoFrame]
    /\ target = [p \in Peers |-> NoPeer]
    /\ ninput = 0
    /\ crashed = FALSE
    /\ wpump = [p \in Peers |-> "running"]
    /\ conn = [p \in Peers |-> "open"]
    /\ routed = << >>
    /\ delivered = [p \in Peers |-> << >>]
    /\ authSent = [p \in Peers |-> FALSE]

\* main: the relay and the services, before any request; the stores start from
\* their defaults.
InitWith(P) ==
    /\ NewRelay(P)
    /\ NewStores([s \in Stores |-> DefaultDoc])
    /\ NewAuthService([limit |-> 1, window |-> SweepAge - 1])

\* ---------------------------------------------------------------- ServeWS
\* ServeWS up to its send on the register channel: the Client is built with
\* Authorized = (password == "") and the handler waits for the hub.
ServeWS(p) ==
    /\ ~crashed
    /\ p \in pool
    /\ pc[p] = "new"
    /\ pc' = [pc EXCEPT ![p] = "registering"]
    /\ Authorized' = [Authorized EXCEPT ![p] = (password = "")]
    /\ UNCHANGED <<config, pumps, services, registry, broadcast, wlock, hub, Send, closes, locals,
                   ninput, crashed, history>>

\* ------------------------------------------------------------- Relay.Run
\* case client := <-r.register and r.mu.Lock(): the rendezvous with ServeWS,
\* which then starts the pumps of the connection.
HubRecvRegister(p) ==
    /\ ~crashed
    /\ hub.pc = "idle"
    /\ pc[p] = "registering"
    /\ wlock' = TRUE
    /\ hub' = [pc |-> "register", client |-> p]
    /\ pc' = [pc EXCEPT ![p] = "reading"]
    /\ UNCHANGED <<config, pumps, services, registry, broadcast, Authorized, Send, closes,
                   locals, ninput, crashed, history>>

\* case client := <-r.unregister and r.mu.Lock(): the rendezvous with
\* readPump's deferred send, after which readPump closes the connection and ends.
HubRecvUnregister(p) ==
    /\ ~crashed
    /\ hub.pc = "idle"
    /\ pc[p] = "unregistering"
    /\ wlock' = TRUE
    /\ hub' = [pc |-> "unregister", client |-> p]
    /\ pc' = [pc EXCEPT ![p] = "done"]
    /\ UNCHANGED <<config, pumps, services, registry, broadcast, Authorized, Send, closes,
                   locals, ninput, crashed, history>>

\* A variant of RegisterSlot in which a controller that finds the slot taken
\* does not replace its holder.
RegisterSlotKeepFirst(c, slot) ==
    IF Type(c) = ClientTypeMoblin /\ slot = NoPeer THEN c ELSE slot

\* The slot after the register case for client c.
RegisterSlot(c, slot) == IF Type(c) = ClientTypeMoblin THEN c ELSE slot

\* The body of the register case, up to r.mu.Unlock().
HubRegister ==
    /\ ~crashed
    /\ hub.pc = "register"
    /\ LET c == hub.client IN
        /\ clients' = clients \cup {c}
        /\ moblin' = RegisterSlot(c, moblin)
        /\ IF Type(c) = ClientTypeMoblin
             THEN /\ Send' = notifyBrowsers(Send, browsers, Synth("moblin_connected"))
                  /\ browsers' = browsers
             ELSE /\ browsers' = browsers \cup {c}
                  /\ Send' = Send
    /\ wlock' = FALSE
    /\ hub' = HubIdle
    /\ UNCHANGED <<config, pumps, services, broadcast, pc, Authorized, closes, locals, ninput, crashed, history>>

\* Whether the unregister case finds the client: _, ok := r.clients[client.ID].
Found(c, cs) == c \in cs

\* A variant of UnregisterSlot that leaves the slot as it is.
UnregisterSlotKeep(c, slot) == slot

\* The slot after the unregister case removed client c.
UnregisterSlot(c, slot) == IF Type(c) = ClientTypeMoblin THEN NoPeer ELSE slot

\* A variant of CloseSend that does not close the channel.
CloseSendNever(c, n) == n

\* The number of close(client.Send) calls after the unregister case removed c.
CloseSend(c, n) == n + 1

\* The body of the unregister case, up to r.mu.Unlock().
HubUnregister ==
    /\ ~crashed
    /\ hub.pc = "unregister"
    /\ LET c == hub.client IN
        IF Found(c, clients)
          THEN /\ clients' = clients \ {c}
               /\ closes' = [closes EXCEPT ![c] = CloseSend(c, closes[c])]
               /\ moblin' = UnregisterSlot(c, moblin)
               /\ IF Type(c) = ClientTypeMoblin
                    THEN /\ Send' = notifyBrowsers(Send, browsers, Synth("moblin_disconnected"))
                         /\ browsers' = browsers
                    ELSE /\ browsers' = browsers \ {c}
                         /\ Send' = Send
          ELSE UNCHANGED <<clients, closes, moblin, Send, browsers>>
    /\ wlock' = FALSE
    /\ hub' = HubIdle
    /\ UNCHANGED <<config, pumps, services, broadcast, pc, Authorized, locals, ninput,
                   crashed, history>>

\* case message := <-r.broadcast: the fan-out under the read lock. The hub is
\* the only writer, so the read lock is free whenever the hub is here.
HubBroadcast ==
    /\ ~crashed
    /\ hub.pc = "idle"
    /\ broadcast # << >>
    /\ Send' = broadcastFanOut(Send, clients, Head(broadcast))
    /\ broadcast' = Tail(broadcast)
    /\ UNCHANGED <<config, pumps, services, registry, wlock, hub, pc, Authorized, closes, locals, ninput, crashed, history>>

\* ------------------------------------------------------- Relay.Broadcast
\* An HTTP handler's r.broadcast <- msg: it goes through when the channel has
\* room and waits otherwise.
Broadcast ==
    /\ ~crashed
    /\ ninput < MaxInputs
    /\ Len(broadcast) < BroadcastCap
    /\ broadcast' = Append(broadcast, Frame("update", NoPeer, ninput + 1))
    /\ ninput' = ninput + 1
    /\ UNCHANGED <<config, pumps, services, registry, wlock, hub, pc, Authorized, Send, closes, locals,
                   crashed, history>>

\* ------------------------------------------------------------- readPump
\* A variant of AuthAccepts that takes any password.
AuthAcceptsAny(m) == m.password \in FramePasswords

\* The check of an auth frame: c.Relay.password == "" || msg.Password == password.
AuthAccepts(m) == password = "" \/ m.password = password

\* The guard before routing: !c.Authorized && c.Relay.password != "".
NotAuthorized(p) == ~Authorized[p] /\ password # ""

\* A variant of sendJSON that answers on the queue of every registered client.
sendJSONToAll(p, f) ==
    [q \in Peers |-> IF q = p \/ q \in clients THEN TrySend(Send[q], f) ELSE Send[q]]

\* c.sendJSON(msg): try-send on the client's own Send channel.
sendJSON(p, f) == [Send EXCEPT ![p] = TrySend(Send[p], f)]

\* One turn of readPump's loop that does not end in a routing call: bytes that
\* do not decode are skipped; an auth frame is answered on the sender's own
\* queue and never routed; any other frame of a peer that is not authorized
\* is dropped.
ReadLocal(p, m) ==
    /\ ~crashed
    /\ pc[p] = "reading"
    /\ conn[p] = "open"
    /\ ninput < MaxInputs
    /\ \/ m.type = "badjson"
       \/ m.type = "auth"
       \/ m.type = "cmd" /\ NotAuthorized(p)
    /\ ninput' = ninput + 1
    /\ IF m.type = "auth"
         THEN IF AuthAccepts(m)
                THEN /\ Authorized' = [Authorized EXCEPT ![p] = TRUE]
                     /\ Send' = sendJSON(p, Frame("auth_success", p, 0))
                ELSE /\ Authorized' = Authorized
                     /\ Send' = sendJSON(p, Frame("auth_failed", p, 0))
         ELSE UNCHANGED <<Authorized, Send>>
    /\ authSent' = [authSent EXCEPT ![p] = @ \/ (m.type = "auth" /\ m.password = password)]
    /\ UNCHANGED <<config, pumps, services, registry, broadcast, wlock, hub, pc, closes, locals, crashed,
                   routed, delivered>>

\* Whether r.mu.RLock() can be taken: no writer holds the lock. The read-locked
\* sections below contain no blocking operation and are single steps.
CanRLock == ~wlock

\* One turn of readPump's loop of a moblin client that reaches the routing call
\* of handleMessage: routeToBrowsers, from r.mu.RLock() to the deferred
\* r.mu.RUnlock().
routeToBrowsers(p) ==
    /\ ~crashed
    /\ pc[p] = "reading"
    /\ conn[p] = "open"
    /\ Type(p) = ClientTypeMoblin
    /\ ninput < MaxInputs
    /\ ~NotAuthorized(p)
    /\ CanRLock
    /\ ninput' = ninput + 1
    /\ Send' = routeFanOut(Send, browsers, Authorized, Frame("cmd", p, ninput + 1))
    /\ routed' = Append(routed, [n |-> ninput + 1,
                                 to |-> {b \in browsers : Authorized[b]},
                                 full |-> {b \in browsers : Len(Send[b]) = SendCap}])
    /\ UNCHANGED <<config, pumps, services, registry, broadcast, wlock, hub, pc, Authorized, closes,
                   locals, crashed, delivered, authSent>>

\* One turn of readPump's loop of a browser client that reaches the routing call
\* of handleMessage: routeToMoblin under the read lock (moblin := r.moblin;
\* r.mu.RUnlock()) and the return when the slot is nil.
routeToMoblin(p) ==
    /\ ~crashed
    /\ pc[p] = "reading"
    /\ conn[p] = "open"
    /\ Type(p) = ClientTypeBrowser
    /\ ninput < MaxInputs
    /\ ~NotAuthorized(p)
    /\ CanRLock
    /\ ninput' = ninput + 1
    /\ IF moblin = NoPeer
         THEN UNCHANGED <<pc, locals>>
         ELSE /\ pc' = [pc EXCEPT ![p] = "routeToMoblin_send"]
              /\ target' = [target EXCEPT ![p] = moblin]
              /\ cur' = [cur EXCEPT ![p] = Frame("cmd", p, ninput + 1)]
    /\ UNCHANGED <<config, pumps, services, registry, broadcast, wlock, hub, Authorized, Send, closes, crashed, history>>

\* routeToMoblin after the lock is released: select { case moblin.Send <- msg:
\* default: }. A send on a channel the hub has closed meanwhile panics, and an
\* unrecovered panic in a goroutine ends the process.
routeToMoblinSend(p) ==
    /\ ~crashed
    /\ pc[p] = "routeToMoblin_send"
    /\ IF closes[target[p]] > 0
         THEN /\ crashed' = TRUE
              /\ UNCHANGED <<Send, pc, locals>>
         ELSE /\ Send' = [Send EXCEPT ![target[p]] = TrySend(Send[target[p]], cur[p])]
              /\ pc' = [pc EXCEPT ![p] = "reading"]
              /\ cur' = [cur EXCEPT ![p] = NoFrame]
              /\ target' = [target EXCEPT ![p] = NoPeer]
              /\ crashed' = crashed
    /\ UNCHANGED <<config, pumps, services, registry, broadcast, wlock, hub, Authorized, closes, ninput, history>>

\* c.Conn.ReadMessage() fails (the peer closed, a deadline passed): the loop
\* breaks and the deferred function sends the client on the unregister channel.
ReadError(p) ==
    /\ ~crashed
    /\ pc[p] = "reading"
    /\ pc' = [pc EXCEPT ![p] = "unregistering"]
    /\ UNCHANGED <<config, pumps, services, registry, broadcast, wlock, hub, Authorized, Send, closes,
                   locals, ninput, crashed, history>>

\* ------------------------------------------------------------ writePump
\* case message, ok := <-c.Send with ok: the frame is written to the
\* connection. A closed channel still yields the frames buffered in it.
WriteFrame(p) ==
    /\ ~crashed
    /\ pc[p] \notin {"new", "registering"}
    /\ wpump[p] = "running"
    /\ conn[p] = "open"
    /\ Send[p] # << >>
    /\ Send' = [Send EXCEPT ![p] = Tail(Send[p])]
    /\ delivered' = [delivered EXCEPT ![p] =
                        IF Head(Send[p]).type = "cmd" /\ Type(p) = ClientTypeBrowser
                          THEN Append(delivered[p], Head(Send[p]).n)
                          ELSE delivered[p]]
    /\ UNCHANGED <<routed, authSent>>
    /\ UNCHANGED <<config, pumps, services, registry, broadcast, wlock, hub, pc, Authorized, closes,
                   locals, ninput, crashed>>

\* w.Write, NextWriter or the ping fails (the connection broke or was
\* closed): writePump returns and its deferred function closes the connection.
WriteError(p) ==
    /\ ~crashed
    /\ pc[p] \notin {"new", "registering"}
    /\ wpump[p] = "running"
    /\ wpump' = [wpump EXCEPT ![p] = "done"]
    /\ conn' = [conn EXCEPT ![p] = "closed"]
    /\ UNCHANGED <<config, services, registry, broadcast, wlock, hub, pc, Authorized, Send,
                   closes, locals, ninput, crashed, history>>

\* case message, ok := <-c.Send with !ok: the hub closed the channel and its
\* buffer is empty; writePump writes the close message and returns.
WriteClosed(p) ==
    /\ ~crashed
    /\ wpump[p] = "running"
    /\ closes[p] > 0
    /\ Send[p] = << >>
    /\ wpump' = [wpump EXCEPT ![p] = "done"]
    /\ conn' = [conn EXCEPT ![p] = "closed"]
    /\ UNCHANGED <<config, services, registry, broadcast, wlock, hub, pc, Authorized, Send,
                   closes, locals, ninput, crashed, history>>

\* readPump's deferred function after its send on the unregister channel:
\* c.Conn.Close().
ReadPumpClose(p) ==
    /\ ~crashed
    /\ pc[p] = "done"
    /\ conn[p] = "open"
    /\ conn' = [conn EXCEPT ![p] = "closed"]
    /\ UNCHANGED <<config, services, registry, broadcast, wlock, hub, pc, Authorized, Send,
                   closes, locals, wpump, ninput, crashed, history>>

\* ------------------------------------------------------------------ Next
Next ==
    \/ \E p \in Peers : ServeWS(p)
    \/ \E p \in Peers : HubRecvRegister(p)
    \/ \E p \in Peers : HubRecvUnregister(p)
    \/ HubRegister
    \/ HubUnregister
    \/ HubBroadcast
    \/ Broadcast
    \/ \E p \in Peers, m \in Incoming : ReadLocal(p, m)
    \/ \E p \in Peers : routeToBrowsers(p)
    \/ \E p \in Peers : routeToMoblin(p)
    \/ \E p \in Peers : routeToMoblinSend(p)
    \/ \E p \in Peers : ReadError(p)
    \/ \E p \in Peers : WriteFrame(p)

SpecA == InitWith({"m1", "m2", "b1"}) /\ [][Next]_vars
SpecB == InitWith({"m1", "b1", "b2"}) /\ [][Next]_vars

\* The scheduling the Go runtime gives: the hub goroutine runs whenever it can
\* take a step, its select picks every ready case sooner or later, and a read
\* pump past the read lock goes on to its send. The connections, the frames
\* they send and the write pumps are under no obligation.
Fairness ==
    /\ WF_vars(HubRegister)
    /\ WF_vars(HubUnregister)
    /\ SF_vars(HubBroadcast)
    /\ \A p \in Peers : SF_vars(HubRecvRegister(p))
    /\ \A p \in Peers : SF_vars(HubRecvUnregister(p))
    /\ \A p \in Peers : WF_vars(routeToMoblinSend(p))

FairSpec == InitWith({"m1", "b1"}) /\ [][Next]_vars /\ Fairness

\* The relay with the ends of the pumps: a write pump that fails or finds its
\* channel closed, and the read pump's close of the connection.
TeardownNext ==
    \/ Next
    \/ \E p \in Peers : WriteError(p)
    \/ \E p \in Peers : WriteClosed(p)
    \/ \E p \in Peers : ReadPumpClose(p)

\* The scheduling of the pumps' ends: a read pump that broke out of its loop
\* goes on to close the connection, ReadMessage and the writes fail on a
\* closed connection, and a write pump whose channel is closed and empty
\* receives the close.
TeardownFairness ==
    /\ Fairness
    /\ \A p \in Peers : WF_vars(ReadPumpClose(p))
    /\ \A p \in Peers : WF_vars(WriteClosed(p))
    /\ \A p \in Peers : WF_vars(conn[p] = "closed" /\ WriteError(p))
    /\ \A p \in Peers : WF_vars(conn[p] = "closed" /\ ReadError(p))

TeardownSpec == InitWith({"m1", "b1"}) /\ [][TeardownNext]_vars /\ TeardownFairness

\* ------------------------------------------------------- versioned stores
\* A variant of UpdateState that keeps the version when the caller's is higher.
UpdateStateKeepHigher(old, newState) ==
    [newState EXCEPT !.Version = IF newState.Version > old.Version
                                   THEN newState.Version ELSE old.Version + 1]

\* A variant of UpdateState that stamps the version and keeps the old payload.
UpdateStateVersionOnly(old, newState) == [old EXCEPT !.Version = old.Version + 1]

\* A variant of UpdateState that skips a version.
UpdateStateSkip(old, newState) == [newState EXCEPT !.Version = old.Version + 2]

\* The document UpdateState leaves in s.state: the caller's, with
\* newState.Version = s.state.Version + 1.
UpdateState(old, newState) == [newState EXCEPT !.Version = old.Version + 1]

\* GetState: a copy of *s.state; GetVersion: s.state.Version.
GetState(s) == store[s]
GetVersion(s) == store[s].Version

\* HandleAPI, POST, up to the return of store.UpdateState: Decode reads the
\* first JSON value of the body, d, whatever bytes follow it (rest), and
\* UpdateState runs under the store's lock; res is the outcome of the
\* WriteFile in s.save() (the state in memory is replaced either way).
PostUpdate(r, s, d, rest, res) ==
    /\ req[r].pc = "idle"
    /\ store' = [store EXCEPT ![s] = UpdateState(store[s], d)]
    /\ disk' = [disk EXCEPT ![s] = save(@, UpdateState(store[s], d), res)]
    /\ lockOrder' = [lockOrder EXCEPT ![s] = Append(@, r)]
    /\ req' = [req EXCEPT ![r] = [pc |-> IF res = "ok" THEN "updated" ELSE "failed",
                                  st |-> s, body |-> d, rest |-> rest,
                                  stamped |-> store[s].Version + 1,
                                  resp |-> NoDoc]]
    /\ UNCHANGED <<relay, authVars, archive, handed, base, lastArchive, ncrash>>

\* HandleAPI, POST, with a body whose first JSON value does not decode: 400
\* Invalid JSON.
PostInvalid(r, s) ==
    /\ req[r].pc = "idle"
    /\ req' = [req EXCEPT ![r].pc = "invalid", ![r].st = s]
    /\ UNCHANGED <<relay, authVars, store, archive, handed, lockOrder, base, disk,
                   lastArchive, ncrash>>

\* The status and the error of the response to request r.
Status(r) == CASE req[r].pc = "invalid" -> Reply(400, "Invalid JSON")
               [] req[r].pc = "failed" -> Reply(500, "Failed to save state")
               [] req[r].pc = "done" -> Reply(200, "")
               [] OTHER -> NoReply

\* HandleAPI, POST: updatedState := h.store.GetState().
PostGetState(r) ==
    /\ req[r].pc = "updated"
    /\ req' = [req EXCEPT ![r].pc = "got", ![r].resp = GetState(req[r].st)]
    /\ UNCHANGED <<relay, authVars, store, archive, handed, lockOrder, base, disk,
                   lastArchive, ncrash>>

\* HandleAPI, POST: the <name>_update frame with updatedState.Version goes to
\* the broadcaster and updatedState is encoded as the response.
PostBroadcast(r) ==
    /\ req[r].pc = "got"
    /\ handed' = handed \cup {[type |-> req[r].st, version |-> req[r].resp.Version,
                                by |-> r]}
    /\ req' = [req EXCEPT ![r].pc = "done"]
    /\ UNCHANGED <<relay, authVars, store, archive, lockOrder, base, disk, lastArchive, ncrash>>

\* A variant of ArchiveSkips that archives a match without a name too.
ArchiveSkipsNever(d) == FALSE

\* ArchiveMatch returns at once: s.state.MatchName == "".
ArchiveSkips(d) == d.MatchName = ""

\* A variant of ArchiveReset that keeps the version of the archived document.
ArchiveResetKeepVersion(d) == [DefaultDoc EXCEPT !.Version = d.Version]

\* The state ArchiveMatch leaves after it wrote document d to the archive.
ArchiveReset(d) == DefaultDoc

\* HandleArchive, POST: ScoutStore.ArchiveMatch under the store's lock.
\* Nothing happens when MatchName is empty; otherwise the document is written
\* to the archive (wrote tells whether that WriteFile succeeded; on failure
\* ArchiveMatch returns before the reset), the state is reset to the default
\* and saved (res is the outcome of that WriteFile).
ArchiveMatch(wrote, res) ==
    /\ IF ArchiveSkips(store["scout"])
         THEN /\ UNCHANGED <<store, archive, disk>>
              /\ lastArchive' = Reply(200, "")
         ELSE IF ~wrote
                THEN /\ UNCHANGED <<store, archive, disk>>
                     /\ lastArchive' = Reply(500, "Failed to archive match")
                ELSE /\ archive' = Append(archive, store["scout"])
                     /\ store' = [store EXCEPT !["scout"] = ArchiveReset(store["scout"])]
                     /\ disk' = [disk EXCEPT !["scout"] =
                                    save(@, ArchiveReset(store["scout"]), res)]
                     /\ lastArchive' = IF res = "ok"
                                         THEN Reply(200, "")
                                         ELSE Reply(500, "Failed to archive match")
    /\ UNCHANGED <<relay, authVars, req, handed, lockOrder, base, ncrash>>

StoreNext ==
    \/ \E r \in Requests, s \in Stores, d \in Bodies, res \in WriteResults :
            PostUpdate(r, s, d, "", res)
    \/ \E r \in Requests, s \in Stores : PostInvalid(r, s)
    \/ \E r \in Requests : PostGetState(r)
    \/ \E r \in Requests : PostBroadcast(r)
    \/ \E wrote \in BOOLEAN, res \in WriteResults :
            /\ ~ArchiveSkips(store["scout"]) => Len(archive) < MaxArchives
            /\ ArchiveMatch(wrote, res)

\* The characters of the match names the requests carry.
Chars(name) == CASE name = "" -> << >>
                 [] name = "A" -> <<"A">>
                 [] name = "A B" -> <<"A", " ", "B">>
                 [] name = "A_B" -> <<"A", "_", "B">>

\* sanitizeFilename: every character of the invalid list becomes "_".
InvalidChars == {"/", "\\", ":", "*", "?", "\"", "<", ">", "|", " "}
sanitizeFilename(name) ==
    [i \in 1..Len(Chars(name)) |->
        IF Chars(name)[i] \in InvalidChars THEN "_" ELSE Chars(name)[i]]

\* archiveName: MatchDate + "_" + sanitizeFilename(MatchName) + ".json".
ArchiveName(d) == <<d.MatchDate, "_", sanitizeFilename(d.MatchName), ".json">>

\* The archive directory after the writes recorded in archive: WriteFile
\* replaces a file of the same name, so each name holds the document written
\* to it last.
ArchiveDir ==
    [name \in {ArchiveName(archive[i]) : i \in 1..Len(archive)} |->
        LET last == CHOOSE i \in 1..Len(archive) :
                        /\ ArchiveName(archive[i]) = name
                        /\ \A j \in (i + 1)..Len(archive) : ArchiveName(archive[j]) # name
        IN  archive[last]]

\* The scout store over two matches: updates with match names that differ
\* only in a character sanitizeFilename replaces, and archives whose writes
\* succeed.
MaxSnapshots == 2
ArchiveBodies == {Doc(0, "A B", MatchDay, <<"p1">>), Doc(0, "A_B", MatchDay, <<"p2">>)}
ArchiveNext ==
    \/ \E r \in Requests, d \in ArchiveBodies : PostUpdate(r, "scout", d, "", "ok")
    \/ \E r \in Requests : PostGetState(r)
    \/ \E r \in Requests : PostBroadcast(r)
    \/ Len(archive) < MaxSnapshots /\ ArchiveMatch(TRUE, "ok")

\* The stores after construction, with no WebSocket connection.
StoreInit ==
    /\ NewRelay({})
    /\ password = ""
    /\ \E d \in [Stores -> LoadedDocs] : NewStores(d)
    /\ NewAuthService([limit |-> 1, window |-> SweepAge - 1])

StoreSpec == StoreInit /\ [][StoreNext]_vars

ArchiveSpec == StoreInit /\ [][ArchiveNext]_vars

\* The store endpoints with request bodies of every kind: two POST requests,
\* whose bodies may carry bytes after their first JSON value.
DecodeRequests == {"r1", "r2"}
DecodeNext ==
    \/ \E r \in DecodeRequests, s \in Stores, d \in Bodies, rest \in Rests,
          res \in WriteResults : PostUpdate(r, s, d, rest, res)
    \/ \E r \in DecodeRequests, s \in Stores : PostInvalid(r, s)
    \/ \E r \in DecodeRequests : PostGetState(r)
    \/ \E r \in DecodeRequests : PostBroadcast(r)

DecodeSpec == StoreInit /\ [][DecodeNext]_vars

\* Where a kill may cut ioutil.WriteFile (OpenFile with O_TRUNC, Write, Close):
\* before the file is truncated, after the truncation and before the last
\* byte is written, or after the write.
WriteCuts == {"before", "during", "after"}
CutFile(f, d, cut) == CASE cut = "before" -> f
                        [] cut = "during" -> Torn
                        [] cut = "after" -> File(d)

\* The process is killed while request r's UpdateState is in s.save(), and is
\* started again: main builds the stores anew, each from its file or, when
\* load fails, from the default document. Nothing of the old process is left
\* but the files.
CrashInSave(r, s, d, cut) ==
    /\ ncrash < MaxCrashes
    /\ req[r].pc = "idle"
    /\ ncrash' = ncrash + 1
    /\ disk' = [disk EXCEPT ![s] = CutFile(@, UpdateState(store[s], d), cut)]
    /\ store' = [t \in Stores |-> load(disk'[t])]
    /\ base' = [t \in Stores |-> load(disk'[t]).Version]
    /\ req' = [q \in Requests |-> NoRequest]
    /\ handed' = {}
    /\ lockOrder' = [t \in Stores |-> << >>]
    /\ lastArchive' = NoReply
    /\ UNCHANGED <<relay, authVars, archive>>

\* The store endpoints of a process that may be killed during a save.
CrashNext ==
    \/ \E r \in DecodeRequests, s \in Stores, d \in Bodies, res \in WriteResults :
            PostUpdate(r, s, d, "", res)
    \/ \E r \in DecodeRequests : PostGetState(r)
    \/ \E r \in DecodeRequests : PostBroadcast(r)
    \/ \E r \in DecodeRequests, s \in Stores, d \in Bodies,
          cut \in WriteCuts : CrashInSave(r, s, d, cut)

CrashSpec == StoreInit /\ [][CrashNext]_vars

\* ------------------------------------------------------------ rate limiter
\* A variant of Valid that keeps a timestamp that is exactly at the cutoff.
ValidInclusive(reqs, cutoff) == SelectSeq(reqs, LAMBDA t : t >= cutoff)

\* The timestamps Allow and cleanup keep: those with t.After(cutoff).
Valid(reqs, cutoff) == SelectSeq(reqs, LAMBDA t : t > cutoff)

\* A variant of AllowOk that lets one more request through.
AllowOkOneMore(key, limit, window) == Len(Valid(requests[key], now - window)) <= limit

\* RateLimiter.Allow: the result, len(valid) < limit, and the map it leaves
\* (valid with now appended when the result is true, untouched otherwise).
AllowOk(key, limit, window) == Len(Valid(requests[key], now - window)) < limit
AllowRecords(key, limit, window) ==
    IF AllowOk(key, limit, window)
      THEN [requests EXCEPT ![key] = Append(Valid(requests[key], now - window), now)]
      ELSE requests

\* The history of the calls of Allow that returned true; cmp tells whether
\* the caller then compared a PIN.
AllowLog(key, limit, window, cmp) ==
    IF AllowOk(key, limit, window)
      THEN [allowed EXCEPT ![key] = Append(@, [at |-> now, compared |-> cmp])]
      ELSE allowed

\* The middleware's call rl.Allow(ip, limit, window) for a client's key.
Allow ==
    /\ requests' = AllowRecords(ClientKey, quota.limit, quota.window)
    /\ allowed' = AllowLog(ClientKey, quota.limit, quota.window, FALSE)
    /\ UNCHANGED <<relay, storeVars, now, quota, sessions, minted, issuedBy, nlogout, probe,
                   lastLogin, lastLogout, gate, static, seen>>

\* RateLimiter.cleanup, run by the sweeper's ticker: every bucket keeps the
\* timestamps younger than SweepAge; a bucket left empty is deleted (reading a
\* deleted bucket gives the empty list).
RateLimiterCleanup ==
    /\ requests' = [k \in Keys |-> Valid(requests[k], now - SweepAge)]
    /\ UNCHANGED <<relay, storeVars, now, quota, allowed, sessions, minted, issuedBy, nlogout,
                   probe, lastLogin, lastLogout, gate, static, seen>>

\* ----------------------------------------------------------- session store
Exists(id) == id \in SessionIDs /\ sessions[id] # NoSession

\* time.Now().After(session.ExpiresAt)
Expired(ses) == now > ses.ExpiresAt

\* SessionStore.Get: nil (NoSession) when the ID is unknown or expired.
Get(id) == IF ~Exists(id) \/ Expired(sessions[id]) THEN NoSession ELSE sessions[id]

\* A variant of Touch that also moves the expiry (a sliding session).
TouchSliding(id) ==
    IF Exists(id) THEN [sessions EXCEPT ![id].LastUsed = now,
                                        ![id].ExpiresAt = now + SessionTTL]
                  ELSE sessions

\* SessionStore.Touch: LastUsed = now if the session exists.
Touch(id) == IF Exists(id) THEN [sessions EXCEPT ![id].LastUsed = now] ELSE sessions

\* A variant of Delete that leaves a session that has not expired.
DeleteExpiredOnly(id) ==
    IF Exists(id) /\ Expired(sessions[id]) THEN [sessions EXCEPT ![id] = NoSession]
                                            ELSE sessions

\* SessionStore.Delete: delete(s.sessions, sessionID).
Delete(id) == IF id \in SessionIDs THEN [sessions EXCEPT ![id] = NoSession] ELSE sessions

\* The record SessionStore.Create stores.
Create == [ExpiresAt |-> now + SessionTTL, LastUsed |-> now]

\* HandleLogin: 405 unless the method is POST; then the rate limiter, then
\* Decode of the body's first JSON value, then the PIN, then Create with a new
\* ID and the session cookie.
HandleLogin(method, pin, body) ==
    IF method # "POST"
      THEN /\ lastLogin' = 405
           /\ UNCHANGED <<relay, storeVars, now, quota, requests, allowed, sessions,
                          minted, issuedBy, nlogout, probe, lastLogout, gate, static, seen>>
      ELSE /\ requests' = AllowRecords(LoginKey, LoginLimit, LoginWindow)
           /\ allowed' = AllowLog(LoginKey, LoginLimit, LoginWindow, Decodes(body))
           /\ IF ~AllowOk(LoginKey, LoginLimit, LoginWindow)
                THEN /\ lastLogin' = 429
                     /\ UNCHANGED <<sessions, minted, issuedBy>>
                ELSE IF ~Decodes(body)
                       THEN /\ lastLogin' = 400
                            /\ UNCHANGED <<sessions, minted, issuedBy>>
                       ELSE IF pin # PIN
                              THEN /\ lastLogin' = 401
                                   /\ UNCHANGED <<sessions, minted, issuedBy>>
                              ELSE /\ lastLogin' = 200
                                   /\ \E id \in SessionIDs \ minted :
                                         /\ sessions' = [sessions EXCEPT ![id] = Create]
                                         /\ minted' = minted \cup {id}
                                         /\ issuedBy' = [issuedBy EXCEPT ![id] =
                                                            Login(method, pin, body)]
           /\ UNCHANGED <<relay, storeVars, now, quota, nlogout, probe, lastLogout, gate,
                          static, seen>>

\* HandleLogout with cookie c: Delete if the cookie is not empty; the
\* response is {success: true} in every case. A client presents an ID only
\* after Create returned it.
HandleLogout(c) ==
    /\ c \in SessionIDs => (c \in minted /\ nlogout[c] < MaxLogouts)
    /\ sessions' = IF c # "" THEN Delete(c) ELSE sessions
    /\ nlogout' = IF c \in SessionIDs THEN [nlogout EXCEPT ![c] = @ + 1] ELSE nlogout
    /\ lastLogout' = AuthResponse(TRUE)
    /\ UNCHANGED <<relay, storeVars, now, quota, requests, allowed, minted, issuedBy, probe,
                   lastLogin, gate, static, seen>>

\* HandleSession with cookie c, up to the return of Get: 401 when Get
\* returns nil, otherwise the handler goes on to Touch.
HandleSessionGet(c) ==
    /\ probe = ""
    /\ c \in SessionIDs => c \in minted
    /\ probe' = IF Get(c) = NoSession THEN "" ELSE c
    /\ UNCHANGED <<relay, storeVars, now, quota, requests, allowed, sessions, minted,
                   issuedBy, nlogout, lastLogin, lastLogout, gate, static, seen>>

\* HandleSession: SessionStore.Touch(sessionID) and the response.
HandleSessionTouch ==
    /\ probe # ""
    /\ sessions' = Touch(probe)
    /\ probe' = ""
    /\ UNCHANGED <<relay, storeVars, now, quota, requests, allowed, minted, issuedBy, nlogout,
                   lastLogin, lastLogout, gate, static, seen>>

\* SessionStore.cleanup, run by the hourly ticker.
SessionStoreCleanup ==
    /\ sessions' = [id \in SessionIDs |->
                        IF Exists(id) /\ Expired(sessions[id]) THEN NoSession
                                                                ELSE sessions[id]]
    /\ UNCHANGED <<relay, storeVars, now, quota, requests, allowed, minted, issuedBy, nlogout,
                   probe, lastLogin, lastLogout, gate, static, seen>>

\* AuthMiddleware.Protect up to the return of SessionStore.Get: the rate
\* limiter with the client's key, then the bot check, then the session; 429,
\* 403, 401 (or 302 for a request that does not accept JSON) at the first
\* check that fails. A client presents an ID only after Create returned it.
ProtectCheck(c, ua, json) ==
    /\ gate.pc = "idle"
    /\ c \in SessionIDs => c \in minted
    /\ requests' = AllowRecords(ClientKey, quota.limit, quota.window)
    /\ allowed' = AllowLog(ClientKey, quota.limit, quota.window, FALSE)
    /\ LET ok == AllowOk(ClientKey, quota.limit, quota.window)
           found == Get(c) # NoSession
       IN  gate' = IF ~ok THEN Gate("idle", "", 429, FALSE)
                   ELSE IF IsBot(ua) THEN Gate("idle", "", 403, FALSE)
                   ELSE IF ~found THEN Gate("idle", "", IF json THEN 401 ELSE 302, FALSE)
                   ELSE Gate("passed", c, 0, FALSE)
    /\ UNCHANGED <<relay, storeVars, now, quota, sessions, minted, issuedBy, nlogout, probe,
                   lastLogin, lastLogout, static, seen>>

\* AuthMiddleware.Protect: SessionStore.Touch(sessionID), then next(w, r).
ProtectNext ==
    /\ gate.pc = "passed"
    /\ sessions' = Touch(gate.cookie)
    /\ gate' = Gate("idle", "", 200, TRUE)
    /\ UNCHANGED <<relay, storeVars, now, quota, requests, allowed, minted, issuedBy, nlogout,
                   probe, lastLogin, lastLogout, static, seen>>

\* authMiddleware of package main up to the return of getSessionFromCookie:
\* the rate limiter, the bot check, then the session; without a session 401
\* when Accept or Content-Type is application/json, 302 otherwise.
authMiddleware(c, ua, accept, ctype) ==
    /\ gate.pc = "idle"
    /\ c \in SessionIDs => c \in minted
    /\ requests' = AllowRecords(ClientKey, quota.limit, quota.window)
    /\ allowed' = AllowLog(ClientKey, quota.limit, quota.window, FALSE)
    /\ seen' = Headers(accept, ctype)
    /\ LET ok == AllowOk(ClientKey, quota.limit, quota.window)
           found == Get(c) # NoSession
       IN  gate' = IF ~ok THEN Gate("idle", "", 429, FALSE)
                   ELSE IF IsBot(ua) THEN Gate("idle", "", 403, FALSE)
                   ELSE IF ~found
                          THEN Gate("idle", "",
                                    IF accept = JSON \/ ctype = JSON THEN 401 ELSE 302, FALSE)
                   ELSE Gate("passed", c, 0, FALSE)
    /\ UNCHANGED <<relay, storeVars, now, quota, sessions, minted, issuedBy, nlogout, probe,
                   lastLogin, lastLogout, static>>

\* The static file handler's test: the path needs a session.
NeedsSession(path) ==
    \/ path = Path("/", "")
    \/ path = Path("/index.html", "")
    \/ ~HasPrefix(path, "/login.html") /\ ~HasPrefix(path, "/overlay/")

\* The handler of "/": for a path that needs a session, a redirect to
\* /login.html when Get returns nil, Touch otherwise; then the file server.
ServeStatic(path, c) ==
    /\ c \in SessionIDs => c \in minted
    /\ IF NeedsSession(path) /\ Get(c) = NoSession
         THEN /\ static' = 302
              /\ sessions' = sessions
         ELSE /\ static' = 200
              /\ sessions' = IF NeedsSession(path) THEN Touch(c) ELSE sessions
    /\ UNCHANGED <<relay, storeVars, now, quota, requests, allowed, minted, issuedBy, nlogout,
                   probe, lastLogin, lastLogout, gate, seen>>

\* Time passes.
Tick ==
    /\ now < MaxTime
    /\ now' = now + 1
    /\ UNCHANGED <<relay, storeVars, quota, requests, allowed, sessions, minted, issuedBy, nlogout,
                   probe, lastLogin, lastLogout, gate, static, seen>>

\* The rate limiter with its callers, the middleware and the login handler.
RateNext ==
    \/ Allow
    \/ RateLimiterCleanup
    \/ \E pin \in PINs, body \in {WellFormed, Undecodable} : HandleLogin("POST", pin, body)
    \/ Tick

\* The rate limiter after construction, with no WebSocket connection and the
\* stores at their defaults.
RateInit ==
    /\ NewRelay({})
    /\ password = ""
    /\ NewStores([s \in Stores |-> DefaultDoc])
    /\ \E q \in Quotas : NewAuthService(q)

RateSpec == RateInit /\ [][RateNext]_vars

\* The session store with its callers: login, logout, the session probe and
\* the sweeper.
SessionNext ==
    \/ \E pin \in PINs, body \in {WellFormed, Undecodable} : HandleLogin("POST", pin, body)
    \/ \E c \in Cookies : HandleLogout(c)
    \/ \E c \in Cookies : HandleSessionGet(c)
    \/ HandleSessionTouch
    \/ SessionStoreCleanup
    \/ Tick

\* The session store after construction, with no WebSocket connection.
SessionInit == InitWith({}) /\ password = ""

SessionSpec == SessionInit /\ [][SessionNext]_vars

\* The admission middleware with what changes the sessions it looks up:
\* logout, the sweeper and time.
GateNext ==
    \/ \E c \in Cookies : HandleLogout(c)
    \/ \E c \in Cookies, ua \in UserAgents, json \in BOOLEAN : ProtectCheck(c, ua, json)
    \/ ProtectNext
    \/ SessionStoreCleanup
    \/ Tick

\* The services after construction, with no WebSocket connection and with the
\* sessions NewSessionStore loaded from sessions.json: those of the logins of
\* an earlier run, made at time 0.
GateInit ==
    /\ NewRelay({})
    /\ password = ""
    /\ NewStores([s \in Stores |-> DefaultDoc])
    /\ \E q \in {q \in Quotas : q.window < SweepAge}, ids \in SUBSET SessionIDs :
          LoadAuthService(q, ids)

GateSpec == GateInit /\ [][GateNext]_vars

\* authMiddleware of package main with requests of every Accept and
\* Content-Type, and what changes the sessions it looks up.
HeaderNext ==
    \/ \E c \in Cookies, ua \in UserAgents, accept \in MediaTypes, ctype \in MediaTypes :
            authMiddleware(c, ua, accept, ctype)
    \/ ProtectNext
    \/ \E c \in Cookies : HandleLogout(c)
    \/ Tick

HeaderSpec == GateInit /\ [][HeaderNext]_vars

\* The static file handler with what changes the sessions it looks up.
StaticNext ==
    \/ \E pin \in PINs, body \in {WellFormed, Undecodable} : HandleLogin("POST", pin, body)
    \/ \E c \in Cookies : HandleLogout(c)
    \/ \E path \in Paths, c \in Cookies : ServeStatic(path, c)
    \/ SessionStoreCleanup
    \/ Tick

StaticSpec == SessionInit /\ [][StaticNext]_vars

\* The login endpoint with requests of every method and every kind of body,
\* and what removes sessions.
LoginNext ==
    \/ \E method \in Methods, pin \in PINs, body \in LoginBodies :
            HandleLogin(method, pin, body)
    \/ \E c \in Cookies : HandleLogout(c)
    \/ SessionStoreCleanup
    \/ Tick

LoginSpec == SessionInit /\ [][LoginNext]_vars

\* ================================================================ claims
TypeOK ==
    /\ moblin \in Peers \cup {NoPeer}
    /\ clients \subseteq Peers
    /\ browsers \subseteq Peers
    /\ \A p \in Peers : Len(Send[p]) <= SendCap

\* The hub finishes the body of its register (unregister) case in this step.
RegisterDone == hub.pc = "register" /\ hub'.pc = "idle"
UnregisterDone == hub.pc = "unregister" /\ hub'.pc = "idle"

\* Browser p reads the controller slot in this step and finds it occupied.
ReadsSlot(p) == pc[p] = "reading" /\ pc'[p] = "routeToMoblin_send"

\* C1: the slot holds at most one peer; the step that completes the register
\* case of a moblin client leaves exactly that client in the slot; the slot
\* changes in no step other than the end of the hub's locked register or
\* unregister case; and a browser that reads the slot does so while no writer
\* holds the lock and gets the value the slot has.
C1_SlotReplacedAtomically ==
    [][ /\ moblin' \in Peers \cup {NoPeer}
        /\ (RegisterDone /\ Type(hub.client) = ClientTypeMoblin) => moblin' = hub.client
        /\ (moblin' # moblin) => (wlock /\ ~wlock' /\ (RegisterDone \/ UnregisterDone))
        /\ \A p \in Peers : ReadsSlot(p) => (~wlock /\ target'[p] = moblin /\ moblin' = moblin)
      ]_vars

\* A second controller replaced the first, which is still registered, and a
\* browser has read the new holder from the slot.
C1_Witness ==
    /\ moblin = "m2"
    /\ "m1" \in clients
    /\ hub.pc = "idle"
    /\ \E b \in Browsers : pc[b] = "routeToMoblin_send" /\ target[b] = "m2"

\* C2: the unregister case of a moblin client P that the registry holds clears
\* the slot and sends moblin_disconnected to the browsers if and only if P is
\* the client in the slot; otherwise the slot and every Send queue stay as
\* they are.
C2_UnregisterClearsOnlyOwnSlot ==
    [][ (UnregisterDone /\ Type(hub.client) = ClientTypeMoblin /\ hub.client \in clients) =>
            IF moblin = hub.client
              THEN /\ moblin' = NoPeer
                   /\ Send' = notifyBrowsers(Send, browsers, Synth("moblin_disconnected"))
              ELSE /\ moblin' = moblin
                   /\ Send' = Send
      ]_vars

\* C3, as claimed: every registered peer is reachable via exactly one of the
\* slot and the browsers set: a browser is in the set and is not the slot, a
\* controller is the slot and is not in the set.
C3_ExactlyOneOfSlotOrBrowsers ==
    \A p \in clients :
        /\ Type(p) = ClientTypeBrowser => (p \in browsers /\ moblin # p)
        /\ Type(p) = ClientTypeMoblin => (moblin = p /\ p \notin browsers)

\* C3, amended: every registered peer is reachable via at most one of the slot
\* and the browsers set: a registered browser is in the set and is not the
\* slot; a registered controller is never in the set and is either the slot
\* or in neither; the set and the slot hold registered peers only, the set
\* browsers and the slot a controller.
C3_AtMostOneOfSlotOrBrowsers ==
    /\ \A p \in clients :
        /\ Type(p) = ClientTypeBrowser => (p \in browsers /\ moblin # p)
        /\ Type(p) = ClientTypeMoblin => p \notin browsers
    /\ \A p \in browsers : p \in clients /\ Type(p) = ClientTypeBrowser
    /\ moblin # NoPeer => (moblin \in clients /\ Type(moblin) = ClientTypeMoblin)

\* Two controllers and a browser are registered; the slot holds the second
\* controller and the first is in neither the slot nor the browsers set.
C3_Witness ==
    /\ clients = {"m1", "m2", "b1"}
    /\ moblin = "m2"
    /\ browsers = {"b1"}

\* C4: the hub closes a client's Send channel at most once; it has closed it
\* once the unregister case for that client is over; and a closed channel
\* belongs to a client whose read pump has ended and that the registry no
\* longer holds, so that a further unregister event for it would close nothing.
C4_SendClosedExactlyOnce ==
    \A p \in Peers :
        /\ closes[p] <= 1
        /\ (pc[p] = "done" /\ ~(hub.pc = "unregister" /\ hub.client = p)) => closes[p] = 1
        /\ closes[p] = 1 => (pc[p] = "done" /\ ~Found(p, clients))

\* Two clients were unregistered, each with its channel closed, while a third
\* is still registered.
C4_Witness ==
    /\ \E p, q \in Peers : p # q /\ closes[p] = 1 /\ closes[q] = 1
    /\ clients # {}

\* The hub takes the frame at the head of the broadcast channel in this step.
HubTakesBroadcast == broadcast # << >> /\ broadcast' = Tail(broadcast)

\* Frame f is in queue q.
InQueue(f, q) == \E i \in 1..Len(q) : q[i] = f

\* C5: when the hub processes broadcast frame f, every registered browser
\* either has f appended to its Send queue or had a full queue, which is left
\* as it was; and a broadcast frame enters a queue in no other way, so a peer
\* that is not registered at that step never gets f.
C5_BroadcastReachesRegistered ==
    [][ /\ HubTakesBroadcast =>
             \A p \in Peers :
                 /\ (p \in browsers /\ Len(Send[p]) < SendCap)
                        => Send'[p] = Append(Send[p], Head(broadcast))
                 /\ (p \in browsers /\ Len(Send[p]) = SendCap) => Send'[p] = Send[p]
                 /\ p \notin clients => Send'[p] = Send[p]
        /\ \A p \in Peers : \A i \in 1..Len(Send'[p]) :
             (Send'[p][i].type = "update" /\ ~InQueue(Send'[p][i], Send[p]))
                 => (HubTakesBroadcast /\ Send'[p][i] = Head(broadcast) /\ p \in clients)
      ]_vars

\* A broadcast frame sits in the queue of a registered browser that is not
\* authorized, while the queue of another registered browser is full of other
\* frames: the frame was dropped for it.
C5_Witness ==
    \E p, q \in browsers :
        /\ \E i \in 1..Len(Send[p]) : Send[p][i].type = "update"
        /\ Len(Send[q]) = SendCap
        /\ \A i \in 1..Len(Send[q]) : Send[q][i].type # "update"
        /\ password = "pw" /\ ~Authorized[p]

\* C6: under fair scheduling the hub consumes every pending event, whatever
\* the state of the Send queues and of the write pumps: a client waiting on
\* the register channel gets registered, a client waiting on the unregister
\* channel gets unregistered and its channel closed, and a frame in the
\* broadcast channel is taken out of it.
C6_HubConsumesEveryEvent ==
    /\ \A p \in Peers : (pc[p] = "registering") ~> (p \in clients)
    /\ \A p \in Peers : (pc[p] = "unregistering") ~> (pc[p] = "done" /\ closes[p] = 1)
    /\ (broadcast # << >>) ~> (broadcast = << >>)

\* The serial numbers of the routed frames in queue q, in queue order.
CmdNs(q) ==
    LET s == SelectSeq(q, LAMBDA f : f.type = "cmd")
    IN  [i \in 1..Len(s) |-> s[i].n]

\* The serial numbers of the frames routed while browser b was a target with
\* room in its queue, in the order the controller sent them.
Accepted(b) ==
    LET s == SelectSeq(routed, LAMBDA r : b \in r.to /\ b \notin r.full)
    IN  [i \in 1..Len(s) |-> s[i].n]

\* A controller's frame goes through routeToBrowsers in this step.
RoutesToBrowsers == Len(routed') = Len(routed) + 1

\* C7: no Send queue ever holds more than SendCap frames; a frame routed to
\* the authorized browsers or broadcast to the clients is appended to the queue
\* of every targeted peer that has room and leaves the full queues, and the
\* queues of the peers not targeted, as they were; and for every browser the
\* routed frames it has dequeued followed by those still in its queue are, in
\* order, the frames sent while it was a target with room: all the frames
\* sent to it when its queue was never full.
C7_SlowConsumerIsolation ==
    [][ /\ \A p \in Peers : Len(Send'[p]) <= SendCap
        /\ RoutesToBrowsers =>
              \E m \in Moblins : \A p \in Peers :
                  Send'[p] = IF p \in browsers /\ Authorized[p] /\ Len(Send[p]) < SendCap
                               THEN Append(Send[p], Frame("cmd", m, ninput + 1))
                               ELSE Send[p]
        /\ HubTakesBroadcast =>
              \A p \in Peers :
                  Send'[p] = IF p \in clients /\ Len(Send[p]) < SendCap
                               THEN Append(Send[p], Head(broadcast))
                               ELSE Send[p]
        /\ \A b \in Browsers : delivered'[b] \o CmdNs(Send'[b]) = Accepted(b)'
      ]_vars

\* A frame was routed to two browsers when the queue of one was full and the
\* queue of the other was not: the second has dequeued it, the first never
\* got it.
C7_Witness ==
    \E i \in 1..Len(routed) : \E slow, fast \in Browsers :
        /\ slow # fast
        /\ {slow, fast} \subseteq routed[i].to
        /\ slow \in routed[i].full
        /\ fast \notin routed[i].full
        /\ delivered[fast] = <<routed[i].n>>
        /\ delivered[slow] = << >> /\ CmdNs(Send[slow]) = << >>

\* C8: a frame of a controller enters a Send queue only if the queue is that
\* of a browser of the registry whose Authorized flag is set at that step.
C8_RoutedOnlyToAuthorizedBrowsers ==
    [][ \A p \in Peers : \A i \in 1..Len(Send'[p]) :
            ( /\ Send'[p][i].type = "cmd"
              /\ Send'[p][i].from \in Moblins
              /\ ~InQueue(Send'[p][i], Send[p]) )
                => (p \in browsers /\ Type(p) = ClientTypeBrowser /\ Authorized[p])
      ]_vars

\* With a password set, a controller authenticated and its next frame was
\* routed while two browsers were registered and not authorized: neither has
\* a routed frame.
C8_Witness ==
    /\ password = "pw"
    /\ routed # << >>
    /\ routed[Len(routed)].to = {}
    /\ \E b1, b2 \in browsers : b1 # b2 /\ ~Authorized[b1] /\ ~Authorized[b2]
    /\ \A b \in Browsers : CmdNs(Send[b]) = << >> /\ delivered[b] = << >>

\* Browser p ends routeToMoblin in this step, having found the slot occupied.
RouteToMoblinEnds(p) ==
    pc[p] = "routeToMoblin_send" /\ (pc'[p] = "reading" \/ crashed')

\* Browser p goes through routeToMoblin in this step and finds the slot empty.
RouteToMoblinEmpty(p) == routeToMoblin(p) /\ moblin = NoPeer

\* C9: a browser's frame that finds a peer in the slot is appended to that
\* peer's Send queue unless the queue is full, and no other queue changes; a
\* frame that finds the slot empty changes no queue.
C9_BrowserFrameToSlotOnly ==
    [][ \A p \in Peers :
          /\ RouteToMoblinEnds(p) =>
                Send' = [Send EXCEPT ![target[p]] =
                            IF Len(@) < SendCap THEN Append(@, cur[p]) ELSE @]
          /\ RouteToMoblinEmpty(p) => Send' = Send
      ]_vars

\* C10, as claimed: an auth frame of peer p changes nothing of another peer,
\* sets p's Authorized flag exactly when the password is accepted, and appends
\* exactly one reply to p's own queue.
C10_AuthRepliesExactlyOnce ==
    [][ \A p \in Peers : \A m \in Incoming :
          (m.type = "auth" /\ ReadLocal(p, m)) =>
              /\ \A q \in Peers \ {p} : Send'[q] = Send[q] /\ Authorized'[q] = Authorized[q]
              /\ Authorized'[p] = (Authorized[p] \/ AuthAccepts(m))
              /\ Send'[p] = Append(Send[p],
                      Frame(IF AuthAccepts(m) THEN "auth_success" ELSE "auth_failed", p, 0))
      ]_vars

\* C10, amended: an auth frame of peer p changes nothing of another peer, sets
\* p's Authorized flag exactly when the password is accepted, and appends
\* exactly one reply to p's own queue unless that queue is full, in which case
\* no reply is enqueued.
C10_AuthRepliesAtMostOnce ==
    [][ \A p \in Peers : \A m \in Incoming :
          (m.type = "auth" /\ ReadLocal(p, m)) =>
              /\ \A q \in Peers \ {p} : Send'[q] = Send[q] /\ Authorized'[q] = Authorized[q]
              /\ Authorized'[p] = (Authorized[p] \/ AuthAccepts(m))
              /\ Send'[p] = IF Len(Send[p]) < SendCap
                              THEN Append(Send[p],
                                     Frame(IF AuthAccepts(m) THEN "auth_success"
                                                             ELSE "auth_failed", p, 0))
                              ELSE Send[p]
      ]_vars

\* With a password set, one registered peer got auth_success and is
\* authorized, another got auth_failed and is not, and each reply is the only
\* auth reply in any queue but its sender's.
C10_Witness ==
    \E p, q \in clients :
        /\ p # q /\ password = "pw"
        /\ Authorized[p] /\ InQueue(Frame("auth_success", p, 0), Send[p])
        /\ ~Authorized[q] /\ InQueue(Frame("auth_failed", q, 0), Send[q])
        /\ \A r \in Peers : \A i \in 1..Len(Send[r]) :
              Send[r][i].type \in {"auth_success", "auth_failed"} => Send[r][i].from = r

\* C11: the Authorized flag of a client that ServeWS has constructed is true
\* if and only if the relay's password is empty or the client has sent an
\* auth frame that carries the password; an auth frame with a wrong password,
\* or any other frame, never brings the flag back to false.
C11_AuthorizedIffPasswordGiven ==
    [][ \A p \in Peers :
          /\ pc'[p] # "new" => (Authorized'[p] <=> (password = "" \/ authSent'[p]))
          /\ Authorized[p] => Authorized'[p]
      ]_vars

\* With a password set, a client sent the password and then an auth frame
\* with a wrong one: both replies are in its queue, in that order, and its
\* flag is still set.
C11_Witness ==
    \E p \in Peers :
        /\ password = "pw" /\ Authorized[p]
        /\ Send[p] = <<Frame("auth_success", p, 0), Frame("auth_failed", p, 0)>>

\* Request r's UpdateState call on store s runs in this step.
Updates(r, s) == req[r].pc = "idle" /\ req'[r].pc \in {"updated", "failed"} /\ req'[r].st = s

\* C12: every UpdateState on either store leaves a document whose Version is
\* the Version the store held just before plus one, whatever Version the
\* caller's document carried.
C12_UpdateStampsPreviousPlusOne ==
    [][ \A r \in Requests, s \in Stores :
          Updates(r, s) => /\ GetVersion(s)' = GetVersion(s) + 1
                           /\ req'[r].stamped = GetVersion(s)'
      ]_vars

\* A store loaded at version 2 took two updates, one whose caller put version
\* 9 and one whose caller put version 0, and holds version 4.
C12_Witness ==
    \E s \in Stores : \E r, q \in Requests :
        /\ archive = << >>
        /\ req[r].pc # "idle" /\ req[r].st = s /\ req[r].body.Version = 9 /\ req[r].stamped = 3
        /\ req[q].pc # "idle" /\ req[q].st = s /\ req[q].body.Version = 0 /\ req[q].stamped = 4
        /\ store[s].Version = 4

\* C13: on a store that no archive has reset, after N UpdateState calls, in
\* whatever order they took the lock, the Version is the initial one plus N,
\* the i-th call to take the lock stamped the initial version plus i, each
\* call appears once, and the stored payload is that of the call that took
\* the lock last.
C13_ConcurrentUpdatesSerialise ==
    \A s \in Stores :
        (s = "scout" => archive = << >>) =>
            LET o == lockOrder[s]
                N == Len(o)
            IN  /\ GetVersion(s) = base[s] + N
                /\ \A i \in 1..N : req[o[i]].stamped = base[s] + i
                /\ \A i, j \in 1..N : i # j => o[i] # o[j]
                /\ {o[i] : i \in 1..N} = {r \in Requests : req[r].pc \notin {"idle", "invalid"} /\ req[r].st = s}
                /\ N > 0 => GetState(s).MatchName = req[o[N]].body.MatchName

\* Three calls updated the same store, loaded at version 2; the last to take
\* the lock carried another payload than the one before it, and two of the
\* calls have not yet gone on to read the state back.
C13_Witness ==
    \E s \in Stores :
        /\ Len(lockOrder[s]) = 3 /\ base[s] = 2 /\ store[s].Version = 5
        /\ req[lockOrder[s][3]].body # req[lockOrder[s][2]].body
        /\ req[lockOrder[s][1]].pc = "updated" /\ req[lockOrder[s][3]].pc = "updated"

\* ArchiveMatch resets the scout store in this step.
Archives == Len(archive') = Len(archive) + 1

\* Request r reads the state back in this step.
ReadsBack(r) == req[r].pc = "updated" /\ req'[r].pc = "got"

\* C14: right after UpdateState with document d the store's state has d's
\* payload; a step that is neither an update of the store nor an archive leaves
\* the state as it is; and GetState returns the state. So a get after
\* update(d), with no update or archive in between, returns d's payload.
C14_GetAfterUpdateRoundTrip ==
    [][ \A s \in Stores :
          /\ \A r \in Requests :
                Updates(r, s) => GetState(s)'.MatchName = req'[r].body.MatchName
          /\ (~Archives /\ ~\E r \in Requests : Updates(r, s)) => GetState(s)' = GetState(s)
          /\ \A r \in Requests :
                (ReadsBack(r) /\ req[r].st = s) => req'[r].resp = GetState(s)
      ]_vars

\* The only update of a store loaded with the match A carried the payload
\* without a match name and version 9; the request read the state back and got
\* that payload, version 3.
C14_Witness ==
    \E r \in Requests :
        /\ req[r].pc = "got" /\ lockOrder[req[r].st] = <<r>> /\ base[req[r].st] = 2
        /\ req[r].body = Doc(9, "", MatchDay, <<"p2">>)
        /\ req[r].resp = Doc(3, "", MatchDay, <<"p2">>)

\* C15, as claimed: over updates and archives of the scout store the version
\* never decreases and grows by at most one per step.
C15_VersionMonotonicGapless ==
    [][ GetVersion("scout")' \in {GetVersion("scout"), GetVersion("scout") + 1} ]_vars

\* C15, amended: the version of the scout store grows by exactly one in every
\* update and changes in no other step, except that an archive of a named
\* match resets it to 1; between two archives it is monotonic and gapless.
C15_VersionMonotonicBetweenArchives ==
    [][ IF Archives
          THEN GetVersion("scout")' = 1
          ELSE IF \E r \in Requests : Updates(r, "scout")
                 THEN GetVersion("scout")' = GetVersion("scout") + 1
                 ELSE GetVersion("scout")' = GetVersion("scout")
      ]_vars

\* The scout store was archived at version 3 and has taken one update since:
\* it holds version 2.
C15_Witness ==
    /\ archive # << >>
    /\ archive[1].Version = 3
    /\ GetVersion("scout") = 2

\* C16: the response of every completed POST carries the document that
\* request wrote, its payload with the version its own update stamped, and
\* the request handed exactly one update frame of its store to the hub, with
\* the version of the response.
C16_ResponseCarriesOwnWrite ==
    \A r \in Requests :
        req[r].pc = "done" =>
            /\ req[r].resp.MatchName = req[r].body.MatchName
            /\ req[r].resp.Version = req[r].stamped
            /\ Cardinality({h \in handed : h.by = r}) = 1
            /\ \A h \in handed :
                  h.by = r => (h.type = req[r].st /\ h.version = req[r].resp.Version)

\* The limit and the window the callers of Allow use for key k.
QuotaOf(k) == IF k = LoginKey THEN [limit |-> LoginLimit, window |-> LoginWindow] ELSE quota

\* The calls in log that returned true in the rolling interval of length w
\* that ends at time T, the instants after T - w up to T.
InWindow(log, T, w) == {i \in 1..Len(log) : T - w < log[i].at /\ log[i].at <= T}

\* C17: for every key, in every rolling interval of the length of the key's
\* window, at most as many calls of Allow returned true as the key's limit
\* allows, whatever the sweeper did in between.
C17_AtMostLimitPerWindow ==
    \A k \in Keys : \A T \in 0..MaxTime :
        Cardinality(InWindow(allowed[k], T, QuotaOf(k).window)) <= QuotaOf(k).limit

\* The calls among those of InWindow after which the handler compared a PIN.
ComparedInWindow(log, T, w) == {i \in InWindow(log, T, w) : log[i].compared}

\* C18: in every rolling interval of LoginWindow at most LoginLimit login
\* requests of a client reach the PIN comparison; a login request that comes
\* when LoginLimit requests of the current interval have reached it is
\* answered 429, whatever PIN it carries, without a comparison and without a
\* session being created.
C18_LoginCutoff ==
    [][ /\ \A T \in 0..MaxTime :
              Cardinality(ComparedInWindow(allowed'[LoginKey], T, LoginWindow)) <= LoginLimit
        /\ \A pin \in PINs, body \in LoginBodies :
              ( /\ HandleLogin("POST", pin, body)
                /\ Cardinality(ComparedInWindow(allowed[LoginKey], now, LoginWindow))
                      >= LoginLimit )
                  => /\ lastLogin' = 429
                     /\ allowed' = allowed
                     /\ sessions' = sessions /\ minted' = minted
      ]_vars

\* LoginLimit login requests with a wrong PIN were compared, the sweeper has
\* emptied nothing that matters, and the next request was answered 429: no
\* session exists.
C18_Witness ==
    /\ lastLogin = 429
    /\ minted = {}
    /\ Len(allowed[LoginKey]) = LoginLimit
    /\ \A i \in 1..Len(allowed[LoginKey]) :
          allowed[LoginKey][i].compared /\ allowed[LoginKey][i].at > now - LoginWindow

\* C19: whenever Get returns a session, the time is before the session's
\* ExpiresAt; Get returns nothing for an ID the store does not hold and at
\* every time from ExpiresAt on, the instant of expiry included.
C19_GetOnlyBeforeExpiry ==
    \A id \in Cookies :
        /\ Get(id) # NoSession => now < Get(id).ExpiresAt
        /\ ~Exists(id) => Get(id) = NoSession
        /\ (Exists(id) /\ now >= sessions[id].ExpiresAt) => Get(id) = NoSession

\* C20: every logout request is answered with success; the first one made
\* with a session's cookie removes the session, a later one leaves the
\* session store as it is; and once a logout was made with a session ID, Get
\* returns nothing for that ID, whatever Touch, the session probe and the
\* sweeper do afterwards.
C20_LogoutIdempotentFinal ==
    [][ /\ \A c \in Cookies :
              HandleLogout(c) =>
                  /\ lastLogout' = AuthResponse(TRUE)
                  /\ c \in SessionIDs => sessions'[c] = NoSession
                  /\ (c \in SessionIDs /\ nlogout[c] > 0) => sessions' = sessions
                  /\ c \notin SessionIDs => sessions' = sessions
        /\ \A id \in SessionIDs :
              nlogout'[id] > 0 => /\ sessions'[id] = NoSession
                                  /\ Get(id)' = NoSession
      ]_vars

\* A session that a login created has been logged out twice, the second time
\* with another session still held, while a session probe that had read it
\* before the first logout is still to call Touch.
C20_Witness ==
    \E id \in minted :
        /\ nlogout[id] = 2
        /\ probe = id
        /\ lastLogout = AuthResponse(TRUE)
        /\ \E other \in SessionIDs \ {id} : Exists(other)

\* ArchiveMatch wrote the scout document to the archive in this step.
Snapshots ==
    /\ ~ArchiveSkips(store["scout"])
    /\ archive' # archive
    /\ \E res \in WriteResults : ArchiveMatch(TRUE, res)

\* C21: when ArchiveMatch archives a scout document with a match name, the
\* document it writes to the archive is the one the store held just before
\* the reset, no update lands in the same step (every update that took the
\* lock before is in the snapshot, every later one in the live document), and
\* GetState then returns the default document: version 1, no match name, no
\* players, today's date.
C21_ArchiveSnapshotsThenResets ==
    [][ Snapshots =>
          /\ store["scout"].MatchName # ""
          /\ archive' = Append(archive, GetState("scout"))
          /\ GetState("scout")' = Doc(1, "", Today, << >>)
          /\ req' = req /\ lockOrder' = lockOrder
          /\ store'["matchday"] = store["matchday"]
      ]_vars

\* The scout store, loaded at version 2, took an update with a named match
\* and was then archived: the snapshot is that update's document at version 3
\* with its players, the live document is the default, and the request that
\* made the update has yet to read the state back.
C21_Witness ==
    /\ archive = <<Doc(3, "A", MatchDay, <<"p1">>)>>
    /\ store["scout"] = DefaultDoc
    /\ lastArchive = Reply(200, "")
    /\ \E r \in Requests :
          req[r].pc = "updated" /\ req[r].st = "scout" /\ req[r].stamped = 3

\* C22: ArchiveMatch on a scout document without a match name writes no
\* archive file and leaves the documents in memory and the current files as
\* they are; and the document an archive leaves has no match name, so that an
\* archive right after an archive is such a call.
C22_ArchiveOfUnnamedIsNoOp ==
    [][ /\ \A wrote \in BOOLEAN, res \in WriteResults :
              (store["scout"].MatchName = "" /\ req' = req /\ ArchiveMatch(wrote, res)) =>
                  /\ archive' = archive
                  /\ store' = store
                  /\ disk' = disk
                  /\ lastArchive' = Reply(200, "")
        /\ Archives => store'["scout"].MatchName = ""
      ]_vars

\* The scout store, loaded with a named match at version 2, took one update
\* that carried players and no match name; the archive request that followed
\* was answered 200 and nothing was archived: document and file are those of
\* the update, at version 3.
C22_Witness ==
    /\ base["scout"] = 2 /\ Len(lockOrder["scout"]) = 1
    /\ lastArchive = Reply(200, "")
    /\ archive = << >>
    /\ store["scout"] = Doc(3, "", MatchDay, <<"p2">>)
    /\ disk["scout"] = File(store["scout"])

\* Request r, whose body is not well-formed JSON, is served in this step: the
\* first value of the body does not decode, or bytes follow it.
Malformed(r) ==
    /\ req[r].pc = "idle"
    /\ req'[r].pc = "invalid" \/ (req'[r].pc # "idle" /\ req'[r].rest # "")

\* C26: a POST whose body is malformed JSON is answered 400 Invalid JSON and
\* changes nothing: the documents of both stores, their files and the archive
\* stay as they are and no frame goes to the broadcaster, in that step and for
\* that request ever after.
C26_InvalidJSONHasNoEffect ==
    [][ \A r \in Requests :
          Malformed(r) =>
              /\ Status(r)' = Reply(400, "Invalid JSON")
              /\ store' = store /\ disk' = disk /\ archive' = archive
              /\ handed' = handed /\ lockOrder' = lockOrder
      ]_vars

\* ArchiveMatch returns an error in this step: one of its two writes failed.
ArchiveFails ==
    /\ req' = req
    /\ ~ArchiveSkips(store["scout"])
    /\ \E wrote \in BOOLEAN, res \in WriteResults :
          ArchiveMatch(wrote, res) /\ (~wrote \/ res # "ok")

\* C27: when the write to disk fails during an update or an archive, the
\* response is 500 with the error Failed to save state, the state in memory is
\* already changed (by an update: the new document with the version plus one;
\* by an archive: the default document) and no update frame goes to the
\* broadcaster for that operation.
C27_WriteFailureReported ==
    [][ /\ \A r \in Requests, s \in Stores :
              (Updates(r, s) /\ disk'[s] # File(store'[s])) =>
                  /\ Status(r)' = Reply(500, "Failed to save state")
                  /\ store'[s] = [req'[r].body EXCEPT !.Version = store[s].Version + 1]
                  /\ handed' = handed
        /\ \A r \in Requests :
              req[r].pc = "failed" => (req'[r] = req[r] /\ \A h \in handed' : h.by # r)
        /\ ArchiveFails =>
              /\ lastArchive' = Reply(500, "Failed to save state")
              /\ store'["scout"] = DefaultDoc
              /\ handed' = handed
      ]_vars

\* The process is killed and started again in this step.
Crashes == ncrash' = ncrash + 1

\* C28: when the process is killed during the save of an update, the file of
\* each store is afterwards the complete document it held before or the
\* complete new document, never a partial one, and the process started again
\* holds the document of the file: it does not fall back to the default
\* document when there was a file to load.
C28_SaveIsAtomic ==
    [][ Crashes =>
          \A s \in Stores :
              disk[s].kind = "json" =>
                  /\ disk'[s].kind = "json"
                  /\ \/ disk'[s] = disk[s]
                     \/ \E d \in Bodies : disk'[s] = File(UpdateState(store[s], d))
                  /\ store'[s] = disk'[s].doc
      ]_vars

\* C25: with a password set, a frame other than auth from a peer that is not
\* authorized goes to no other peer's queue, and exactly one frame of type
\* error (Not authorized) is appended to the sender's own queue.
C25_UnauthorizedGetsError ==
    [][ \A p \in Peers : \A m \in Incoming :
          (m.type = "cmd" /\ NotAuthorized(p) /\ ReadLocal(p, m)) =>
              /\ \A q \in Peers \ {p} : Send'[q] = Send[q]
              /\ Send'[p] = Append(Send[p], Frame("error", p, 0))
      ]_vars

\* The cookie c resolves to a session that has not expired.
Resolves(c) == c \in SessionIDs /\ Exists(c) /\ now < sessions[c].ExpiresAt

\* C23: the middleware answers 429 exactly when the rate limiter denies the
\* client's key; otherwise the request has taken one slot of the limiter, and
\* it is answered 403 when the User-Agent is a bot's, else 401 (302 for a
\* request that does not accept JSON) when the cookie does not resolve to a
\* session that has not expired; it goes on to the handler only when all three
\* checks passed, and the session is touched in the step that invokes the
\* handler.
C23_AdmissionInOrder ==
    [][ /\ \A c \in Cookies, ua \in UserAgents, json \in BOOLEAN :
              ProtectCheck(c, ua, json) =>
                  LET ok == AllowOk(ClientKey, quota.limit, quota.window)
                  IN  /\ ~ok => (gate'.status = 429 /\ requests' = requests)
                      /\ ok => requests'[ClientKey] =
                                  Append(Valid(requests[ClientKey], now - quota.window), now)
                      /\ (ok /\ IsBot(ua)) => gate'.status = 403
                      /\ (ok /\ ~IsBot(ua) /\ ~Resolves(c)) =>
                              gate'.status = (IF json THEN 401 ELSE 302)
                      /\ gate'.pc = "passed" <=> (ok /\ ~IsBot(ua) /\ Resolves(c))
                      /\ ~gate'.next
        /\ (gate'.next /\ ~gate.next) =>
              /\ gate.pc = "passed"
              /\ Exists(gate.cookie) => sessions'[gate.cookie].LastUsed = now
      ]_vars

\* The public set: /login.html, /favicon.ico, /styles.css and everything under
\* /overlay/ (/health has a route of its own and never reaches the static
\* file handler).
Public(path) ==
    \/ path \in {Path("/login.html", ""), Path("/favicon.ico", ""), Path("/styles.css", "")}
    \/ HasPrefix(path, "/overlay/")

\* C24: a request for a path outside the public set goes to the file server
\* only if its cookie resolves to a session that has not expired, and is
\* redirected to /login.html otherwise; a request for a path of the public set
\* goes to the file server whatever its cookie, and no session is looked at.
C24_StaticGate ==
    [][ \A path \in Paths, c \in Cookies :
          ServeStatic(path, c) =>
              /\ Public(path) => (static' = 200 /\ sessions' = sessions)
              /\ ~Public(path) => /\ static' = 200 <=> Resolves(c)
                                  /\ static' = 302 <=> ~Resolves(c)
      ]_vars

\* The timestamps of bucket b that count at the present time for a window w:
\* those with now - t < w.
Counted(b, w) == SelectSeq(b, LAMBDA t : now - t < w)

\* What the claim says a call of Allow for key k with limit l and window w
\* does: it returns true (ret) exactly when fewer than l timestamps of the
\* key's bucket count; on true the bucket is the counted timestamps with now
\* appended, on false every bucket is as before; the other keys' buckets are
\* as before in both cases.
AllowContract(k, l, w, ret) ==
    /\ ret <=> Len(Counted(requests[k], w)) < l
    /\ ret => requests'[k] = Append(Counted(requests[k], w), now)
    /\ ~ret => requests' = requests
    /\ \A o \in Keys \ {k} : requests'[o] = requests[o]

\* C29: every call of Allow, the middleware's for the client's key and the
\* login handler's for the login key, returns true exactly when fewer than
\* limit timestamps of that key's bucket satisfy now - t < window, records now
\* on true and nothing on false, and leaves the other key's bucket alone.
C29_AllowContract ==
    [][ /\ Allow => AllowContract(ClientKey, quota.limit, quota.window,
                                  allowed'[ClientKey] # allowed[ClientKey])
        /\ \A pin \in PINs, body \in LoginBodies :
              HandleLogin("POST", pin, body) =>
                  /\ AllowContract(LoginKey, LoginLimit, LoginWindow,
                                   allowed'[LoginKey] # allowed[LoginKey])
                  /\ lastLogin' = 429 <=> allowed'[LoginKey] = allowed[LoginKey]
      ]_vars

\* With limit 1 the client's key was allowed at time 0 and, its timestamp
\* being exactly one window old, again at one window later, while the login
\* key, whose bucket is full, was denied: the login bucket holds what it held
\* and the client's bucket the one new timestamp.
C29_Witness ==
    /\ quota.limit = 1
    /\ now = quota.window
    /\ Len(allowed[ClientKey]) = 2
    /\ allowed[ClientKey][1].at = 0 /\ allowed[ClientKey][2].at = now
    /\ requests[ClientKey] = <<now>>
    /\ lastLogin = 429
    /\ Len(requests[LoginKey]) = LoginLimit

\* C30: every session the store holds was created for a login request that was
\* a POST, passed the login rate limit, carried well-formed JSON and the
\* configured PIN; and a login request answered 405, 429, 400 or 401 leaves
\* the session store as it is and gets no session cookie.
C30_SessionsOnlyFromValidLogins ==
    [][ /\ \A id \in SessionIDs :
              (sessions[id] = NoSession /\ sessions'[id] # NoSession) =>
                  /\ issuedBy'[id] = Login("POST", PIN, WellFormed)
                  /\ lastLogin' = 200
                  /\ Len(allowed'[LoginKey]) = Len(allowed[LoginKey]) + 1
        /\ \A method \in Methods, pin \in PINs, body \in LoginBodies :
              (HandleLogin(method, pin, body) /\ lastLogin' \in {405, 429, 400, 401}) =>
                  (sessions' = sessions /\ minted' = minted)
      ]_vars

\* C31: when the admission middleware finds no valid session (its response is
\* 401 or 302), the response is 401 if and only if the request's Accept header
\* is application/json; a request with only Content-Type: application/json, or
\* with no Accept header, gets the 302.
C31_UnauthorizedByAcceptOnly ==
    gate.status \in {401, 302} => (gate.status = 401 <=> seen.Accept = JSON)

\* C32: touch(id) sets last_used = now only if the session is present and not
\* expired; for an absent or an expired session it changes nothing in the
\* store (and so writes nothing to the session file, which save copies from
\* the store).
C32_TouchOnlyLiveSessions ==
    [][HandleSessionTouch =>
          IF Exists(probe) /\ ~Expired(sessions[probe])
            THEN sessions' = [sessions EXCEPT ![probe].LastUsed = now]
            ELSE sessions' = sessions]_vars

\* The pumps of p have both returned, the hub has removed p from its registry
\* and has closed p's Send channel.
TornDown(p) ==
    /\ p \notin clients
    /\ closes[p] = 1
    /\ pc[p] = "done"
    /\ wpump[p] = "done"

\* C33: whichever pump of a peer exits first, the read pump on a read error
\* or the write pump on a write error, under fair scheduling the peer is
\* eventually unregistered, its Send channel closed and both pumps ended.
C33_TeardownTerminates ==
    \A p \in Peers : (pc[p] = "unregistering" \/ wpump[p] = "done") ~> TornDown(p)

\* C34: at most one live controller: once a later controller holds the slot,
\* a frame the earlier controller sends is enqueued on no browser's Send
\* queue; only frames of the peer in the slot are routed to browsers.
C34_OnlySlotHolderRoutes ==
    [][\A p \in Moblins :
          (moblin \notin {p, NoPeer} /\ routeToBrowsers(p)) => Send' = Send]_vars

\* C35: no frame is ever sent on a Send channel after the hub has closed it,
\* under every interleaving of the unregister case with the routing calls of
\* the read pumps, the peers' own replies and the broadcast fan-out. A send on
\* a closed channel is a panic, which the model records in crashed.
C35_NoSendOnClosedQueue == ~crashed

\* C36: the controller slot never dangles: whenever the slot is not empty, the
\* client it holds is a controller, is in the hub's client registry, and its
\* Send channel has not been closed.
C36_SlotNeverDangles ==
    moblin # NoPeer =>
        /\ Type(moblin) = ClientTypeMoblin
        /\ moblin \in clients
        /\ closes[moblin] = 0

\* The slot holds a registered controller after an earlier controller was
\* unregistered and its channel closed.
C36_Witness ==
    /\ moblin \in Moblins
    /\ moblin \in clients
    /\ \E m \in Moblins \ {moblin} : closes[m] = 1 /\ m \notin clients

\* C37: when a password is configured, a peer that is not authorized receives
\* nothing but the replies to its own frames: no store-update broadcast, no
\* controller lifecycle notification and no routed frame is enqueued on its
\* Send queue.
C37_UnauthorizedReceivesOnlyReplies ==
    \A q \in Peers :
        (password # "" /\ ~Authorized[q]) =>
            \A i \in 1..Len(Send[q]) : Send[q][i].from = q

\* C38: under concurrent POSTs to one store, the update frames are handed to
\* the hub's broadcast channel with strictly increasing versions, each the
\* version the handing request's own update produced: no version is announced
\* twice or skipped, and none after a higher one. (Stated for the frames
\* handed before any archive, which starts the versions again.)
C38_AnnouncedVersionsIncrease ==
    [][archive = << >> =>
          \A h \in handed' \ handed :
              /\ \A g \in handed : g.type = h.type => g.version < h.version
              /\ h.version = req[h.by].stamped]_vars

\* C39: a session's ExpiresAt is fixed by Create at the login time plus the
\* session lifetime, later than the login, and no operation changes it: the
\* session probe and its Touch update only LastUsed. So a session ID is
\* accepted no later than one lifetime after its login, whatever the activity.
C39_ExpiryFixedAtCreation ==
    [][/\ \A id \in SessionIDs :
             /\ (~Exists(id) /\ sessions'[id] # NoSession) =>
                    (sessions'[id].ExpiresAt = now + SessionTTL /\ sessions'[id].ExpiresAt > now)
             /\ (Exists(id) /\ sessions'[id] # NoSession) =>
                    sessions'[id].ExpiresAt = sessions[id].ExpiresAt
       /\ (probe = "" /\ probe' # "") =>
             (Exists(probe') /\ now <= sessions[probe'].ExpiresAt)]_vars

\* A session was used, and touched, at a time later than its login.
C39_Witness ==
    \E id \in SessionIDs :
        /\ Exists(id)
        /\ sessions[id].LastUsed > sessions[id].ExpiresAt - SessionTTL

\* C40: archiving never destroys an earlier snapshot: every document a
\* successful archive wrote is still in the archive directory under its
\* archive name, also when two archived matches have the same date and match
\* names that sanitise to the same string.
C40_SnapshotsSurvive ==
    \A i \in 1..Len(archive) : ArchiveDir[ArchiveName(archive[i])] = archive[i]

====
